---- MODULE Spec2Model ----
(***************************************************************************)
(* Model of src/app.py: the per-identifier sliding-window RateLimiter, the *)
(* DataValidator, the LoveStatsService over the process-wide record        *)
(* Config.MOCK_LOVE_STATS, and the /api/love-stats request handlers.       *)
(*                                                                         *)
(* Time is an integer number of seconds (time.time() and datetime.now()    *)
(* both read the variable clock).  A Python dict is a function whose       *)
(* DOMAIN is its key set; a Python list is a sequence.                     *)
(***************************************************************************)
EXTENDS Integers, Sequences, FiniteSets, TLC

(***************************************************************************)
(* Program constants (class Config).                                       *)
(***************************************************************************)
RATE_LIMIT_WINDOW == 60
RATE_LIMIT_MAX == 100

(***************************************************************************)
(* Bounds of the model.                                                    *)
(***************************************************************************)
\* is_allowed calls one identifier makes before its window is empty again
MaxCalls == 103
\* calls of every identifier but the busiest one (keeps two windows finite)
MaxLightCalls == 1
\* calls per identifier whose statements interleave with other calls
MaxStepCalls == 2
\* direct update_stats calls in a run of the service model
MaxUpdates == 2
\* the last second of the modelled time span
MaxTime == 61

\* request threads of the server
Threads == {1, 2}
\* client identifiers: an address and the fallback bucket of
\* rate_limit_required (request.remote_addr or 'unknown')
IPs == {"10.0.0.1", "unknown"}
\* how far one clock advance goes: just inside, exactly at, just past the window
ClockSteps == {RATE_LIMIT_WINDOW - 1, RATE_LIMIT_WINDOW, RATE_LIMIT_WINDOW + 1}

NoIp == "<none>"

VARIABLES
    clock,           \* the wall clock, in seconds
    request_counts,  \* RateLimiter.request_counts: identifier -> list of timestamps
    ret,             \* the latest completed is_allowed call and what it observed
    hist,            \* per identifier: calls since its window was last empty, the
                     \* time of the first of them and how many of them were
                     \* admitted, ever rejected, last admitted time, whether two
                     \* of its calls overlapped, calls made statement by statement
    pc,              \* per request thread: where it stands inside is_allowed
    loc,             \* per request thread: the locals ip, current_time and the
                     \* list built by the comprehension
    stats,           \* Config.MOCK_LOVE_STATS: donation, reference to the
                     \* benefit_categories dict, last_updated
    heap,            \* the dict objects that references point to
    snapshot,        \* the dict the latest get_current_stats call returned
    result,          \* the latest update_stats call: payload, time, return value
    resp,            \* the latest HTTP request to /api/love-stats and its response
    prev,            \* the stored record as it was before the latest operation
    expect,          \* what the holder of the snapshot and the store should see
    vin,             \* validate_positive_integer: the arguments under test
    vout             \* validate_positive_integer: the returned pair

rlvars == <<clock, request_counts, ret, hist, pc, loc>>
datavars == <<stats, heap, snapshot, result, resp, prev, expect>>
valvars == <<vin, vout>>
vars == <<clock, request_counts, ret, hist, pc, loc,
          stats, heap, snapshot, result, resp, prev, expect, vin, vout>>

(***************************************************************************)
(* RateLimiter                                                             *)
(***************************************************************************)
\* d[k] = v on a dict
Put(d, k, v) == [j \in (DOMAIN d) \cup {k} |-> IF j = k THEN v ELSE d[j]]

\* the purge forgotten: every stored timestamp is kept
Purge_KeepsAll(window, current_time) == window

\* the purge with an inclusive comparison: a timestamp exactly one window old stays
Purge_Inclusive(window, current_time) ==
    SelectSeq(window, LAMBDA req_time : current_time - req_time <= RATE_LIMIT_WINDOW)

\* the purge resets the window instead of filtering it
Purge_DropsAll(window, current_time) == <<>>

\* lines 78-81: the list comprehension that keeps the unexpired timestamps
Purge(window, current_time) ==
    SelectSeq(window, LAMBDA req_time : current_time - req_time < RATE_LIMIT_WINDOW)

\* the limit test with a strict comparison: one request too many passes
OverLimit_Strict(window) == Len(window) > RATE_LIMIT_MAX

\* line 84: the limit test on the purged window
OverLimit(window) == Len(window) >= RATE_LIMIT_MAX

\* lines 61-89, run without interruption: the new dict and the returned bool
is_allowed(rc, ip, current_time) ==
    LET rc1 == IF ip \notin DOMAIN rc THEN Put(rc, ip, <<>>) ELSE rc
        rc2 == Put(rc1, ip, Purge(rc1[ip], current_time))
    IN  IF OverLimit(rc2[ip])
        THEN [rc |-> rc2, allowed |-> FALSE]
        ELSE [rc |-> Put(rc2, ip, Append(rc2[ip], current_time)), allowed |-> TRUE]

\* the stored window of an identifier, empty when it has none yet
WindowOf(rc, ip) == IF ip \in DOMAIN rc THEN rc[ip] ELSE <<>>

\* how many stored timestamps of a window are younger than the window length
Young(window, now) ==
    Cardinality({i \in 1..Len(window) : now - window[i] < RATE_LIMIT_WINDOW})

\* every other identifier has the same entry in both dicts
OthersSame(rc, rc2, ip) ==
    \A j \in IPs \ {ip} :
        /\ (j \in DOMAIN rc) <=> (j \in DOMAIN rc2)
        /\ j \in DOMAIN rc => rc2[j] = rc[j]

InitRL ==
    /\ clock = 0
    /\ request_counts = [j \in {} |-> <<>>]
    /\ ret = [ip |-> NoIp, allowed |-> FALSE, now |-> 0, young |-> 0,
              prevRejected |-> FALSE, prevLastAdmit |-> -1, prevCalls |-> 0,
              frame |-> TRUE]
    /\ hist = [j \in IPs |-> [ncalls |-> 0, first |-> 0, admitted |-> 0,
                             rejected |-> FALSE,
                             lastAdmit |-> -1, overlap |-> FALSE, stepwise |-> 0]]
    /\ pc = [t \in Threads |-> "idle"]
    /\ loc = [t \in Threads |-> [ip |-> NoIp, current_time |-> 0, filtered |-> <<>>]]

\* the environment lets at most one identifier make more than MaxLightCalls calls
MayCall(ip) ==
    /\ hist[ip].ncalls < MaxCalls
    /\ \/ hist[ip].ncalls < MaxLightCalls
       \/ \A j \in IPs \ {ip} : hist[j].ncalls <= MaxLightCalls

\* a call of ip by thread t begins while another thread is inside a call for
\* the same identifier
Overlaps(ip, t) == \E u \in Threads \ {t} : pc[u] # "idle" /\ loc[u].ip = ip

\* the clock advances between calls
Tick ==
    /\ \E d \in ClockSteps : clock + d <= MaxTime /\ clock' = clock + d
    /\ UNCHANGED <<request_counts, ret, hist, pc, loc, datavars, valvars>>

\* one whole is_allowed(ip) call, made while no other call is in progress
Gate(ip) ==
    /\ \A t \in Threads : pc[t] = "idle"
    /\ MayCall(ip)
    /\ LET r == is_allowed(request_counts, ip, clock)
           fresh == Young(WindowOf(request_counts, ip), clock) = 0
       IN  /\ request_counts' = r.rc
           /\ ret' = [ip |-> ip, allowed |-> r.allowed, now |-> clock,
                      young |-> Young(WindowOf(request_counts, ip), clock),
                      prevRejected |-> hist[ip].rejected,
                      prevLastAdmit |-> hist[ip].lastAdmit,
                      prevCalls |-> hist[ip].ncalls,
                      frame |-> OthersSame(request_counts, r.rc, ip)]
           /\ hist' = [hist EXCEPT ![ip] =
                          [ncalls |-> IF fresh THEN 1 ELSE @.ncalls + 1,
                           first |-> IF fresh THEN clock ELSE @.first,
                           admitted |-> (IF fresh THEN 0 ELSE @.admitted)
                                        + (IF r.allowed THEN 1 ELSE 0),
                           rejected |-> @.rejected \/ ~r.allowed,
                           lastAdmit |-> IF r.allowed THEN clock ELSE @.lastAdmit,
                           overlap |-> @.overlap,
                           stepwise |-> @.stepwise]]

\* is_allowed(ip) called on its own
IsAllowedCall(ip) == Gate(ip) /\ UNCHANGED <<clock, pc, loc, datavars, valvars>>

Call == \E ip \in IPs : IsAllowedCall(ip)

(***************************************************************************)
(* JSON values as Python sees them after request.get_json().  A value is a *)
(* record [kind, val]: val is the number of an int, 0/1 of a bool, ten     *)
(* times the number of a float, the length of a str or list.               *)
(***************************************************************************)
JNull == [kind |-> "null", val |-> 0]
JBool(b) == [kind |-> "bool", val |-> b]
JInt(n) == [kind |-> "int", val |-> n]
JFloat(tenths) == [kind |-> "float", val |-> tenths]
JStr(len) == [kind |-> "str", val |-> len]
JList(len) == [kind |-> "list", val |-> len]
JDict(len) == [kind |-> "dict", val |-> len]

\* isinstance(value, int): bool is a subclass of int in Python
IsInstanceInt(value) == value.kind \in {"int", "bool"}

\* Python truth value: None, False, 0, 0.0, "", [] and {} are false
Truthy(value) == value.kind # "null" /\ value.val # 0

\* the absent error message of a (True, None) return
None == "<None>"

\* the value of benefit_categories in a payload: a scalar, or a dict given by
\* its items in order
BCScalar(value) == [kind |-> value.kind, val |-> value.val, items |-> <<>>]
BCDict(items) == [kind |-> "dict", val |-> Len(items), items |-> items]
Item(key, value) == [key |-> key, value |-> value]

\* a parsed request body: a scalar, or an object with the keys it carries
BodyScalar(value) ==
    [kind |-> value.kind, val |-> value.val, has_donation |-> FALSE,
     donation |-> JNull, has_bc |-> FALSE, bc |-> BCScalar(JNull)]
BodyDict(has_donation, donation, has_bc, bc, others) ==
    [kind |-> "dict",
     val |-> (IF has_donation THEN 1 ELSE 0) + (IF has_bc THEN 1 ELSE 0) + others,
     has_donation |-> has_donation, donation |-> donation,
     has_bc |-> has_bc, bc |-> bc]

\* lines 42-49: the eight categories and their seed values
Categories == {"total_donation", "visually_impaired", "medical_staff", "filial_piety",
               "matsu_resident", "new_resident", "beach_cleanup", "allpass"}
SeedCategories ==
    [k \in Categories |->
        JInt(CASE k = "total_donation" -> 714649
               [] k = "visually_impaired" -> 488540
               [] k = "medical_staff" -> 133468
               [] k = "filial_piety" -> 3155
               [] k = "matsu_resident" -> 1160
               [] k = "new_resident" -> 1674
               [] k = "beach_cleanup" -> 3780
               [] k = "allpass" -> 78807)]
\* line 40
SeedDonation == 714649

(***************************************************************************)
(* DataValidator                                                           *)
(***************************************************************************)
Ok == [ok |-> TRUE, msg |-> None]
Fail(msg) == [ok |-> FALSE, msg |-> msg]

\* lines 99-116
validate_positive_integer(value, field_name) ==
    IF value.kind = "null" THEN Ok
    ELSE IF ~IsInstanceInt(value) \/ value.val < 0
         THEN Fail("Invalid value for " \o field_name \o ": must be a positive integer")
         ELSE Ok

\* lines 137-147: the loop over categories.items(), first failure returned
RECURSIVE ValidateItems(_, _)
ValidateItems(items, allowed_keys) ==
    IF items = <<>> THEN Ok
    ELSE LET key == Head(items).key
             value == Head(items).value
             v == validate_positive_integer(value, key)
         IN  IF key \notin allowed_keys THEN Fail("Unknown benefit category: " \o key)
             ELSE IF ~v.ok THEN v
             ELSE ValidateItems(Tail(items), allowed_keys)

\* lines 119-147; allowed_keys are the keys of the stored benefit_categories
validate_benefit_categories(categories, allowed_keys) ==
    IF categories.kind = "null" THEN Ok
    ELSE IF categories.kind # "dict" THEN Fail("benefit_categories must be a dictionary")
    ELSE ValidateItems(categories.items, allowed_keys)

(***************************************************************************)
(* LoveStatsService                                                        *)
(***************************************************************************)
\* the one dict object that MOCK_LOVE_STATS["benefit_categories"] refers to
CatRef == 1

\* lines 161-170: dict.copy() copies the top level only, so the returned dict
\* holds the same reference to the benefit_categories dict
get_current_stats(st) ==
    [taken |-> TRUE, donation |-> st.donation,
     benefit_categories |-> st.benefit_categories,
     last_updated |-> st.last_updated, updatedAt |-> st.last_updated]

\* data.get(key): the value, None when the key is absent
GetDonation(data) == IF data.has_donation THEN data.donation ELSE JNull
GetCategories(data) == IF data.has_bc THEN data.bc ELSE BCScalar(JNull)

\* the donation written when it is truthy: a donation of 0 is skipped
ApplyDonation_Truthy(st, donation) ==
    IF Truthy(donation) THEN [st EXCEPT !.donation = donation] ELSE st

\* lines 197-198
ApplyDonation(st, donation) ==
    IF donation.kind # "null" THEN [st EXCEPT !.donation = donation] ELSE st

\* lines 201-203: the loop over benefit_categories.items()
RECURSIVE ApplyItems(_, _)
ApplyItems(cats, items) ==
    IF items = <<>> THEN cats
    ELSE ApplyItems(IF Head(items).value.kind # "null"
                    THEN Put(cats, Head(items).key, Head(items).value)
                    ELSE cats,
                    Tail(items))

\* lines 200-203
ApplyCategories(hp, ref, benefit_categories) ==
    IF Truthy(benefit_categories)
    THEN [hp EXCEPT ![ref] = ApplyItems(@, benefit_categories.items)]
    ELSE hp

\* the donation stored as soon as it is validated, before benefit_categories
\* is looked at
update_stats_EagerDonation(st, hp, data, now) ==
    IF data.kind # "dict"
    THEN [stats |-> st, heap |-> hp, ok |-> FALSE,
          msg |-> "Internal server error during update"]
    ELSE LET donation == GetDonation(data)
             v1 == validate_positive_integer(donation, "donation")
             benefit_categories == GetCategories(data)
             v2 == validate_benefit_categories(benefit_categories,
                                               DOMAIN hp[st.benefit_categories])
             st1 == ApplyDonation(st, donation)
         IN  IF ~v1.ok THEN [stats |-> st, heap |-> hp, ok |-> FALSE, msg |-> v1.msg]
             ELSE IF ~v2.ok
                  THEN [stats |-> st1, heap |-> hp, ok |-> FALSE, msg |-> v2.msg]
             ELSE [stats |-> [st1 EXCEPT !.last_updated = now],
                   heap |-> ApplyCategories(hp, st.benefit_categories, benefit_categories),
                   ok |-> TRUE, msg |-> None]

\* lines 173-213.  data.get on a body that is no dict raises AttributeError,
\* which the except clause turns into (False, "Internal server error during
\* update") before anything is written.
update_stats(st, hp, data, now) ==
    IF data.kind # "dict"
    THEN [stats |-> st, heap |-> hp, ok |-> FALSE,
          msg |-> "Internal server error during update"]
    ELSE LET donation == GetDonation(data)
             v1 == validate_positive_integer(donation, "donation")
             benefit_categories == GetCategories(data)
             v2 == validate_benefit_categories(benefit_categories,
                                               DOMAIN hp[st.benefit_categories])
         IN  IF ~v1.ok THEN [stats |-> st, heap |-> hp, ok |-> FALSE, msg |-> v1.msg]
             ELSE IF ~v2.ok THEN [stats |-> st, heap |-> hp, ok |-> FALSE, msg |-> v2.msg]
             ELSE [stats |-> [ApplyDonation(st, donation) EXCEPT !.last_updated = now],
                   heap |-> ApplyCategories(hp, st.benefit_categories, benefit_categories),
                   ok |-> TRUE, msg |-> None]

\* the stored record with the benefit_categories reference followed
Deep(st, hp) ==
    [donation |-> st.donation, benefit_categories |-> hp[st.benefit_categories],
     last_updated |-> st.last_updated]

\* what the holder of a get_current_stats result reads from it
DeepSnapshot(snap, hp) ==
    [donation |-> snap.donation, benefit_categories |-> hp[snap.benefit_categories],
     last_updated |-> snap.last_updated, updatedAt |-> snap.updatedAt]

NoSnapshot ==
    [taken |-> FALSE, donation |-> JNull, benefit_categories |-> CatRef,
     last_updated |-> 0, updatedAt |-> 0]

NoBody == BodyScalar(JNull)

\* lines 39-52: the record is built when the module is loaded
InitData ==
    /\ stats = [donation |-> JInt(SeedDonation), benefit_categories |-> CatRef,
                last_updated |-> 0]
    /\ heap = [r \in {CatRef} |-> SeedCategories]
    /\ snapshot = NoSnapshot
    /\ result = [n |-> 0, data |-> NoBody, now |-> 0, ok |-> FALSE, msg |-> None]
    /\ resp = [method |-> "none", status |-> 0, text |-> "", is_json |-> FALSE,
               malformed |-> FALSE, body |-> NoBody]
    /\ prev = [donation |-> JInt(SeedDonation), benefit_categories |-> SeedCategories,
               last_updated |-> 0]
    /\ expect = [snap |-> DeepSnapshot(NoSnapshot, [r \in {CatRef} |-> SeedCategories]),
                 record |-> [donation |-> JInt(SeedDonation),
                             benefit_categories |-> SeedCategories,
                             last_updated |-> 0]]

InitValIdle ==
    /\ vin = [value |-> JNull, field_name |-> "donation"]
    /\ vout = [returned |-> FALSE, ok |-> FALSE, msg |-> None]

Init == InitRL /\ InitData /\ InitValIdle
Next == Tick \/ Call
Spec == Init /\ [][Next]_vars

(***************************************************************************)
(* is_allowed under the threaded server: no lock is taken, so the          *)
(* statements of two calls interleave.  One action per statement; the      *)
(* subscript assignment of lines 78-81 is a read of the list (the          *)
(* comprehension) followed by a store.  While no call is in progress a     *)
(* call may also run from its first statement to its last without a switch *)
(* of threads (IsAllowedCall).  The clock stands still, so every call of a *)
(* run falls inside one window.                                            *)
(***************************************************************************)
Done(t, ip, now, allowed) ==
    /\ pc' = [pc EXCEPT ![t] = "idle"]
    /\ ret' = [ip |-> ip, allowed |-> allowed, now |-> now, young |-> 0,
               prevRejected |-> FALSE, prevLastAdmit |-> -1, prevCalls |-> 0,
               frame |-> TRUE]
    /\ hist' = [hist EXCEPT ![ip].admitted = IF allowed THEN @ + 1 ELSE @,
                            ![ip].rejected = @ \/ ~allowed,
                            ![ip].lastAdmit = IF allowed THEN now ELSE @]

\* the environment starts at most MaxStepCalls interleaved calls per identifier
MayStart(ip) == MayCall(ip) /\ hist[ip].stepwise < MaxStepCalls

\* line 71: current_time = time.time()
ReadTime(t) ==
    /\ pc[t] = "idle"
    /\ \E ip \in IPs :
          /\ MayStart(ip)
          /\ loc' = [loc EXCEPT ![t] = [ip |-> ip, current_time |-> clock,
                                        filtered |-> <<>>]]
          /\ hist' = [hist EXCEPT
                         ![ip].ncalls = @ + 1,
                         ![ip].stepwise = @ + 1,
                         ![ip].overlap = @ \/ Overlaps(ip, t)]
    /\ pc' = [pc EXCEPT ![t] = "check_key"]
    /\ UNCHANGED <<clock, request_counts, ret>>
    /\ UNCHANGED <<datavars, valvars>>

\* line 74: if ip not in self.request_counts
CheckKey(t) ==
    /\ pc[t] = "check_key"
    /\ pc' = [pc EXCEPT ![t] = IF loc[t].ip \notin DOMAIN request_counts
                               THEN "init_key" ELSE "purge"]
    /\ UNCHANGED <<clock, request_counts, ret, hist, loc>>
    /\ UNCHANGED <<datavars, valvars>>

\* line 75: self.request_counts[ip] = []
InitKey(t) ==
    /\ pc[t] = "init_key"
    /\ request_counts' = Put(request_counts, loc[t].ip, <<>>)
    /\ pc' = [pc EXCEPT ![t] = "purge"]
    /\ UNCHANGED <<clock, ret, hist, loc>>
    /\ UNCHANGED <<datavars, valvars>>

\* lines 78-81, right-hand side: the comprehension over the stored list
PurgeRead(t) ==
    /\ pc[t] = "purge"
    /\ loc' = [loc EXCEPT ![t].filtered =
                  Purge(request_counts[loc[t].ip], loc[t].current_time)]
    /\ pc' = [pc EXCEPT ![t] = "store"]
    /\ UNCHANGED <<clock, request_counts, ret, hist>>
    /\ UNCHANGED <<datavars, valvars>>

\* line 78: self.request_counts[ip] = <the new list>
PurgeStore(t) ==
    /\ pc[t] = "store"
    /\ request_counts' = Put(request_counts, loc[t].ip, loc[t].filtered)
    /\ loc' = [loc EXCEPT ![t].filtered = <<>>]
    /\ pc' = [pc EXCEPT ![t] = "limit"]
    /\ UNCHANGED <<clock, ret, hist>>
    /\ UNCHANGED <<datavars, valvars>>

\* lines 84-85: the limit test, return False when over
LimitCheck(t) ==
    /\ pc[t] = "limit"
    /\ IF OverLimit(request_counts[loc[t].ip])
       THEN Done(t, loc[t].ip, loc[t].current_time, FALSE)
       ELSE /\ pc' = [pc EXCEPT ![t] = "append"]
            /\ UNCHANGED <<ret, hist>>
    /\ UNCHANGED <<clock, request_counts, loc>>
    /\ UNCHANGED <<datavars, valvars>>

\* lines 88-89: record the request, return True
AppendTime(t) ==
    /\ pc[t] = "append"
    /\ request_counts' = Put(request_counts, loc[t].ip,
                             Append(request_counts[loc[t].ip], loc[t].current_time))
    /\ Done(t, loc[t].ip, loc[t].current_time, TRUE)
    /\ UNCHANGED <<clock, loc>>
    /\ UNCHANGED <<datavars, valvars>>

ThreadStep(t) ==
    \/ ReadTime(t)
    \/ CheckKey(t)
    \/ InitKey(t)
    \/ PurgeRead(t)
    \/ PurgeStore(t)
    \/ LimitCheck(t)
    \/ AppendTime(t)

NextConc == Call \/ \E t \in Threads : ThreadStep(t)
SpecConc == Init /\ [][NextConc]_vars

(***************************************************************************)
(* The service called directly: update_stats with JSON payloads,           *)
(* get_current_stats, and a caller that writes into the dict it was given. *)
(***************************************************************************)
DonationChoices ==
    {<<FALSE, JNull>>, <<TRUE, JNull>>, <<TRUE, JInt(800000)>>, <<TRUE, JInt(0)>>,
     <<TRUE, JInt(-1)>>, <<TRUE, JBool(1)>>}
FewDonationChoices == {<<FALSE, JNull>>, <<TRUE, JInt(800000)>>}
CategoryChoices ==
    {<<FALSE, BCScalar(JNull)>>,
     <<TRUE, BCScalar(JNull)>>,
     <<TRUE, BCScalar(JInt(5))>>,
     <<TRUE, BCDict(<<>>)>>,
     <<TRUE, BCDict(<<Item("medical_staff", JInt(140000))>>)>>,
     <<TRUE, BCDict(<<Item("medical_staff", JNull), Item("filial_piety", JInt(7))>>)>>,
     <<TRUE, BCDict(<<Item("medical_staff", JInt(140000)), Item("unknown_key", JInt(5))>>)>>,
     <<TRUE, BCDict(<<Item("medical_staff", JInt(140000)), Item("allpass", JInt(-1))>>)>>,
     <<TRUE, BCDict(<<Item("filial_piety", JBool(1))>>)>>}
FewCategoryChoices ==
    {<<FALSE, BCScalar(JNull)>>,
     <<TRUE, BCDict(<<Item("medical_staff", JInt(140000))>>)>>,
     <<TRUE, BCDict(<<Item("medical_staff", JInt(140000)), Item("unknown_key", JInt(5))>>)>>}

\* the payloads handed to update_stats
ServicePayloads ==
    {BodyDict(d[1], d[2], c[1], c[2], 0) : d \in DonationChoices, c \in FewCategoryChoices}
    \cup {BodyDict(d[1], d[2], c[1], c[2], 0) : d \in FewDonationChoices, c \in CategoryChoices}
    \cup {BodyDict(FALSE, JNull, FALSE, BCScalar(JNull), 1),
          BodyScalar(JList(1)), BodyScalar(JStr(3))}

\* one update_stats(data) call
UpdateStats ==
    /\ result.n < MaxUpdates
    /\ \E data \in ServicePayloads :
         LET r == update_stats(stats, heap, data, clock)
         IN  /\ stats' = r.stats
             /\ heap' = r.heap
             /\ result' = [n |-> result.n + 1, data |-> data, now |-> clock,
                           ok |-> r.ok, msg |-> r.msg]
             /\ prev' = Deep(stats, heap)
             /\ expect' = [expect EXCEPT !.record = Deep(r.stats, r.heap)]
    /\ UNCHANGED <<snapshot, resp, rlvars, valvars>>

\* one get_current_stats() call; the caller keeps the returned dict
GetStats ==
    /\ snapshot' = get_current_stats(stats)
    /\ expect' = [expect EXCEPT !.snap = DeepSnapshot(get_current_stats(stats), heap)]
    /\ UNCHANGED <<stats, heap, result, resp, prev, rlvars, valvars>>

\* the caller assigns snapshot["donation"]
SnapshotSetDonation ==
    /\ snapshot.taken
    /\ snapshot' = [snapshot EXCEPT !.donation = JInt(1)]
    /\ expect' = [expect EXCEPT !.snap.donation = JInt(1)]
    /\ UNCHANGED <<stats, heap, result, resp, prev, rlvars, valvars>>

\* the caller assigns snapshot["benefit_categories"][k]
SnapshotSetCategory ==
    /\ snapshot.taken
    /\ \E k \in {"medical_staff", "unknown_key"} :
         /\ heap' = [heap EXCEPT ![snapshot.benefit_categories] = Put(@, k, JInt(1))]
         /\ expect' = [expect EXCEPT !.snap.benefit_categories = Put(@, k, JInt(1))]
    /\ UNCHANGED <<stats, snapshot, result, resp, prev, rlvars, valvars>>

NextSvc == Tick \/ UpdateStats \/ GetStats
SpecSvc == Init /\ [][NextSvc]_vars

NextAlias == Tick \/ UpdateStats \/ GetStats \/ SnapshotSetDonation \/ SnapshotSetCategory
SpecAlias == Init /\ [][NextAlias]_vars

(***************************************************************************)
(* The HTTP handlers of /api/love-stats behind rate_limit_required,        *)
(* requests handled one at a time.                                         *)
(***************************************************************************)
\* what a POST carries: whether the content type is JSON, whether the body
\* fails to parse (request.get_json() then raises BadRequest), the parsed body
Request(is_json, malformed, body) ==
    [is_json |-> is_json, malformed |-> malformed, body |-> body]

HttpRequests ==
    {Request(FALSE, FALSE, NoBody),
     Request(TRUE, TRUE, NoBody),
     Request(TRUE, FALSE, BodyScalar(JNull)),
     Request(TRUE, FALSE, BodyDict(FALSE, JNull, FALSE, BCScalar(JNull), 0)),
     Request(TRUE, FALSE, BodyScalar(JList(1))),
     Request(TRUE, FALSE, BodyDict(TRUE, JInt(-1), FALSE, BCScalar(JNull), 0)),
     Request(TRUE, FALSE,
             BodyDict(TRUE, JInt(800000), TRUE,
                      BCDict(<<Item("medical_staff", JInt(140000))>>), 0)),
     Request(TRUE, FALSE,
             BodyDict(TRUE, JInt(800000), TRUE,
                      BCDict(<<Item("medical_staff", JInt(140000)),
                               Item("unknown_key", JInt(5))>>), 0))}

Answer(st, hp, status, text) ==
    [stats |-> st, heap |-> hp, status |-> status, text |-> text]

\* lines 301-321: the body of api_update_love_stats
api_update_love_stats(st, hp, rq, now) ==
    IF ~rq.is_json
    THEN Answer(st, hp, 400, "Content-Type must be application/json")
    ELSE IF rq.malformed
    THEN Answer(st, hp, 500, "Internal server error")
    ELSE IF ~Truthy(rq.body)
    THEN Answer(st, hp, 400, "No data provided")
    ELSE LET r == update_stats(st, hp, rq.body, now)
         IN  IF ~r.ok
             THEN Answer(r.stats, r.heap, 400, r.msg)
             ELSE Answer(r.stats, r.heap, 200, "Stats updated successfully")

Response(method, status, text, rq) ==
    [method |-> method, status |-> status, text |-> text, is_json |-> rq.is_json,
     malformed |-> rq.malformed, body |-> rq.body]

\* the clock passes a whole window between two requests
TickWindow ==
    /\ clock + RATE_LIMIT_WINDOW + 1 <= MaxTime
    /\ clock' = clock + RATE_LIMIT_WINDOW + 1
    /\ UNCHANGED <<request_counts, ret, hist, pc, loc, datavars, valvars>>

\* POST /api/love-stats from ip: lines 218-225, then lines 301-321
Post(ip) ==
    /\ Gate(ip)
    /\ \E rq \in HttpRequests :
         LET allowed == is_allowed(request_counts, ip, clock).allowed
             h == api_update_love_stats(stats, heap, rq, clock)
         IN  IF ~allowed
             THEN /\ resp' = Response("POST", 429, "Rate limit exceeded", rq)
                  /\ UNCHANGED <<stats, heap>>
             ELSE /\ resp' = Response("POST", h.status, h.text, rq)
                  /\ stats' = h.stats
                  /\ heap' = h.heap
    /\ prev' = Deep(stats, heap)
    /\ UNCHANGED <<clock, pc, loc, snapshot, result, expect, valvars>>

\* GET /api/love-stats from ip: lines 218-225, then lines 280-290; the dict of
\* get_current_stats is serialised into the response and dropped
Get(ip) ==
    /\ Gate(ip)
    /\ IF ~is_allowed(request_counts, ip, clock).allowed
       THEN resp' = Response("GET", 429, "Rate limit exceeded",
                             Request(FALSE, FALSE, NoBody))
       ELSE resp' = Response("GET", 200, "public, max-age=300",
                             Request(FALSE, FALSE, NoBody))
    /\ prev' = Deep(stats, heap)
    /\ UNCHANGED <<clock, pc, loc, stats, heap, snapshot, result, expect, valvars>>

NextHttp == TickWindow \/ (\E ip \in IPs : Post(ip)) \/ (\E ip \in IPs : Get(ip))
SpecHttp == Init /\ [][NextHttp]_vars

(***************************************************************************)
(* validate_positive_integer on its own: the arguments are drawn at the    *)
(* start, one call is made.                                                *)
(***************************************************************************)
ValValues ==
    {JNull, JBool(0), JBool(1),
     JInt(-800000), JInt(-1), JInt(0), JInt(1), JInt(800000),
     JFloat(-15), JFloat(0), JFloat(25), JFloat(50),
     JStr(0), JStr(2), JList(0), JList(1), JDict(0), JDict(1)}
ValFieldNames == {"donation"} \cup Categories

InitVal ==
    /\ InitRL
    /\ InitData
    /\ vin \in [value : ValValues, field_name : ValFieldNames]
    /\ vout = [returned |-> FALSE, ok |-> FALSE, msg |-> None]

Validate ==
    /\ ~vout.returned
    /\ LET r == validate_positive_integer(vin.value, vin.field_name)
       IN  vout' = [returned |-> TRUE, ok |-> r.ok, msg |-> r.msg]
    /\ UNCHANGED <<vin, rlvars, datavars>>

NextVal == Validate
SpecVal == InitVal /\ [][NextVal]_vars

(***************************************************************************)
(* Properties of the rate limiter                                          *)
(***************************************************************************)
\* C1: with calls executed one at a time, a call returns false exactly when
\* 100 stored timestamps of its identifier are younger than 60 seconds; and
\* of the calls an identifier makes from an empty window on, all less than
\* 60 seconds after the first, the n-th returns true for n <= 100 and false
\* from the 101st on.
C1_HundredPerWindow ==
    ret.ip # NoIp =>
        /\ ~ret.allowed <=> ret.young = RATE_LIMIT_MAX
        /\ ret.now - hist[ret.ip].first < RATE_LIMIT_WINDOW =>
              (ret.allowed <=> hist[ret.ip].ncalls <= RATE_LIMIT_MAX)

\* the 101st call of an identifier is rejected 59 seconds after its first
C1_Witness ==
    /\ ret.ip # NoIp
    /\ ~ret.allowed
    /\ hist[ret.ip].ncalls = RATE_LIMIT_MAX + 1
    /\ ret.now = RATE_LIMIT_WINDOW - 1
    /\ request_counts[ret.ip][1] = 0

\* C3: a call of an identifier that has been rejected before, made more than
\* 60 seconds after the identifier's most recent admitted request, returns
\* true, however many rejected calls lie in between.
C3_AdmittedAfterWindow ==
    (/\ ret.ip # NoIp
     /\ ret.prevRejected
     /\ ret.now - ret.prevLastAdmit > RATE_LIMIT_WINDOW) => ret.allowed

\* 100 admitted and two rejected calls, then a call 61 seconds later
C3_Witness ==
    /\ ret.ip # NoIp
    /\ ret.prevRejected
    /\ ret.prevLastAdmit >= 0
    /\ ret.now - ret.prevLastAdmit > RATE_LIMIT_WINDOW
    /\ ret.prevCalls = RATE_LIMIT_MAX + 2
    /\ ret.allowed

\* C9: when an is_allowed call has completed, the stored window of its
\* identifier holds no timestamp that is 60 seconds or more older than the
\* clock value the call read, and the call left every other identifier's
\* window as it was.
C9_NoExpiredAfterCheck ==
    ret.ip # NoIp =>
        /\ \A i \in 1..Len(request_counts[ret.ip]) :
              ret.now - request_counts[ret.ip][i] < RATE_LIMIT_WINDOW
        /\ ret.frame

\* a call that found timestamps exactly 60 seconds old, while another
\* identifier has a window of its own
C9_Witness ==
    /\ ret.ip # NoIp
    /\ ret.prevLastAdmit >= 0
    /\ ret.now - ret.prevLastAdmit = RATE_LIMIT_WINDOW
    /\ \E j \in IPs \ {ret.ip} :
          j \in DOMAIN request_counts /\ Len(request_counts[j]) > 0

\* C10: is_allowed takes no lock.  An identifier is admitted more than 100
\* times inside one window only when two of its calls overlapped, and with
\* overlapping calls that state is reached (C10_Witness).
C10_OvershootNeedsOverlap ==
    \A ip \in IPs : hist[ip].admitted > RATE_LIMIT_MAX => hist[ip].overlap

\* 101 admitted requests of one identifier are stored in its window
C10_Witness ==
    \E ip \in IPs :
        /\ hist[ip].admitted > RATE_LIMIT_MAX
        /\ ip \in DOMAIN request_counts
        /\ Len(request_counts[ip]) > RATE_LIMIT_MAX
        /\ \A i \in 1..Len(request_counts[ip]) :
              clock - request_counts[ip][i] < RATE_LIMIT_WINDOW

(***************************************************************************)
(* Properties of the validator, the service and the handlers               *)
(***************************************************************************)
\* C2: the stored record (donation, every category value, last_updated)
\* differs from what it was before the latest request only when that request
\* was a POST answered with 200; a request answered 429, 400 or 500 leaves
\* all three fields as they were.
C2_OnlyOkPostWrites ==
    resp.method # "none" =>
        (Deep(stats, heap) # prev => resp.method = "POST" /\ resp.status = 200)

\* a POST with a valid donation and, after a valid entry, an unknown category
\* was answered 400 and wrote nothing
C2_Witness ==
    /\ resp.method = "POST"
    /\ resp.status = 400
    /\ resp.text = "Unknown benefit category: unknown_key"
    /\ resp.body.has_donation
    /\ resp.body.donation = JInt(800000)
    /\ stats.donation # resp.body.donation
    /\ resp.body.bc.items[1].value # heap[stats.benefit_categories]["medical_staff"]
    /\ Deep(stats, heap) = prev

\* C4: after any sequence of update_stats calls the stored donation and every
\* stored category value are non-negative integers and the category keys are
\* the eight seed keys.
C4_RecordWellFormed ==
    /\ stats.donation.kind = "int"
    /\ stats.donation.val >= 0
    /\ DOMAIN heap[stats.benefit_categories] = Categories
    /\ \A k \in DOMAIN heap[stats.benefit_categories] :
          /\ heap[stats.benefit_categories][k].kind = "int"
          /\ heap[stats.benefit_categories][k].val >= 0

\* C5: what the holder of a get_current_stats result reads from it changes
\* only by the holder's own writes, and the stored record changes only by
\* update_stats.
C5_SnapshotIsACopy ==
    snapshot.taken =>
        /\ DeepSnapshot(snapshot, heap) = expect.snap
        /\ Deep(stats, heap) = expect.record

\* the non-null value a payload carries for category k, JNull when it has none
PayloadCategory(data, k) ==
    LET items == GetCategories(data).items
        hits == {i \in 1..Len(items) : items[i].key = k /\ items[i].value.kind # "null"}
    IN  IF hits = {} THEN JNull
        ELSE items[CHOOSE i \in hits : \A j \in hits : j <= i].value

\* the payload is an object whose donation and benefit_categories both validate
PassesValidation(data, allowed_keys) ==
    /\ data.kind = "dict"
    /\ validate_positive_integer(GetDonation(data), "donation").ok
    /\ validate_benefit_categories(GetCategories(data), allowed_keys).ok

\* C6: an update_stats call whose payload passes validation returns
\* (True, None); afterwards donation is the payload's non-null donation or else
\* unchanged, every category the payload gives a non-null value has that value,
\* every other category keeps its value, last_updated is the time of the call,
\* and get_current_stats returns exactly these values.
C6_ValidUpdateApplied ==
    (result.n > 0 /\ PassesValidation(result.data, DOMAIN prev.benefit_categories)) =>
        /\ result.ok
        /\ result.msg = None
        /\ stats.donation = IF GetDonation(result.data).kind # "null"
                            THEN GetDonation(result.data) ELSE prev.donation
        /\ DOMAIN heap[stats.benefit_categories] = DOMAIN prev.benefit_categories
        /\ \A k \in DOMAIN prev.benefit_categories :
              heap[stats.benefit_categories][k] =
                  IF PayloadCategory(result.data, k).kind # "null"
                  THEN PayloadCategory(result.data, k)
                  ELSE prev.benefit_categories[k]
        /\ stats.last_updated = result.now
        /\ DeepSnapshot(get_current_stats(stats), heap) =
              [donation |-> stats.donation,
               benefit_categories |-> heap[stats.benefit_categories],
               last_updated |-> result.now, updatedAt |-> result.now]

\* an update at a later time that gave a donation, a null for one category and
\* a value for another
C6_Witness ==
    /\ result.n > 0
    /\ result.ok
    /\ result.data.has_donation
    /\ stats.donation = JInt(800000)
    /\ prev.donation # JInt(800000)
    /\ PayloadCategory(result.data, "filial_piety") = JInt(7)
    /\ heap[stats.benefit_categories]["filial_piety"] = JInt(7)
    /\ result.data.bc.items[1] = Item("medical_staff", JNull)
    /\ heap[stats.benefit_categories]["medical_staff"] = prev.benefit_categories["medical_staff"]
    /\ stats.last_updated > prev.last_updated

\* C7: validate_positive_integer returns (True, None) exactly for null and for
\* the integers >= 0, and for every other JSON value (boolean, negative or
\* non-integer number, string, list, object) returns False with the message
\* "Invalid value for <field>: must be a positive integer".
C7_AcceptsExactlyNonNegativeIntegers ==
    vout.returned =>
        /\ vout.ok <=> \/ vin.value.kind = "null"
                       \/ vin.value.kind = "int" /\ vin.value.val >= 0
        /\ vout.ok => vout.msg = None
        /\ ~vout.ok => vout.msg = "Invalid value for " \o vin.field_name
                                      \o ": must be a positive integer"

\* C8: a POST that passed the rate limiter is answered 400 with its specific
\* message for a client error (content type, empty body, failed validation),
\* and 500 with "Internal server error" for an internal failure such as a
\* non-empty JSON body that is not an object.
C8_ErrorClassesDistinct ==
    (resp.method = "POST" /\ resp.status # 429) =>
        /\ ~resp.is_json =>
              resp.status = 400 /\ resp.text = "Content-Type must be application/json"
        /\ (resp.is_json /\ ~resp.malformed /\ ~Truthy(resp.body)) =>
              resp.status = 400 /\ resp.text = "No data provided"
        /\ (resp.is_json /\ ~resp.malformed /\ Truthy(resp.body)
              /\ resp.body.kind = "dict"
              /\ ~PassesValidation(resp.body, DOMAIN prev.benefit_categories)) =>
              /\ resp.status = 400
              /\ resp.text \in {"Invalid value for donation: must be a positive integer",
                                "Unknown benefit category: unknown_key"}
        /\ (resp.is_json /\ ~resp.malformed /\ Truthy(resp.body)
              /\ resp.body.kind # "dict") =>
              resp.status = 500 /\ resp.text = "Internal server error"
====
